---- MODULE Spec2Model ----
(***************************************************************************)
(* The snapshot-classification pipeline of find_snapshots.py (interactive  *)
(* mode) and find_attached_snapshots.py (fixed-config mode):               *)
(*   initialize_aws_client -> get_all_snapshots -> ThreadPoolExecutor      *)
(*   fan-out of check_snapshot_association -> as_completed fan-in and      *)
(*   partition -> csv tables.                                              *)
(* A snapshot record is identified by its SnapshotId, modelled as the      *)
(* integer i of the i-th record the provider lists; a future is identified *)
(* by the index of the record it was submitted for.                        *)
(***************************************************************************)
EXTENDS Integers, Sequences, FiniteSets, TLC

VARIABLES
    mode,                 \* which script runs: "interactive" | "fixed"
    account,              \* number of snapshots the account owns (provider side)
    images,               \* provider side: SnapshotId -> describe_images outcome
    pc,                   \* main()'s position
    exit_code,            \* process exit status, -1 while the process runs
    error,                \* the exception that ended main(), "none" otherwise
    printed,              \* set of status/warning lines printed
    list_calls,           \* describe_snapshots page requests attempted
    snapshots,            \* get_all_snapshots' accumulator / main's `snapshots`
    fstate,               \* future -> "NEW" | "PENDING" | "RUNNING" | "FINISHED"
    work_queue,           \* the executor's FIFO work queue (future indexes)
    lookup_count,         \* future -> describe_images calls issued for it
    future_result,        \* future -> what check_snapshot_association returned
    consumed,             \* future -> times as_completed yielded it
    completed,            \* tqdm's counter of drained outcomes
    attached_snapshots,   \* accumulator list
    unattached_snapshots, \* accumulator list (interactive mode only)
    saving,               \* index into Tables(mode) of the table written next
    files,                \* mode -> table -> the csv file on disk
    runs                  \* program runs started so far

vars == <<mode, account, images, pc, exit_code, error, printed, list_calls,
          snapshots, fstate, work_queue, lookup_count,
          future_result, consumed, completed, attached_snapshots,
          unattached_snapshots, saving, files, runs>>

(* ------------------------------ bounds -------------------------------- *)

MaxSnapshots == 3

PoolSnapshots == 11

ModesSnapshots == 2

PageSize == 2

(* ------------------------- program constants -------------------------- *)

max_workers == 10

Modes == {"interactive", "fixed"}

(* ---------------------------- environment ----------------------------- *)

\* What ec2.describe_images does for one snapshot: it raises, or answers
\* with the ordered list of ImageIds.
LookupOutcomes ==
    { [raises |-> TRUE,  ImageIds |-> <<>>],
      [raises |-> FALSE, ImageIds |-> <<>>],
      [raises |-> FALSE, ImageIds |-> <<"ami-1">>],
      [raises |-> FALSE, ImageIds |-> <<"ami-2", "ami-1">>] }

Max(a, b) == IF a > b THEN a ELSE b

Min(a, b) == IF a < b THEN a ELSE b

\* The paginator always issues at least one request.
NumPages(n) == Max(1, (n + PageSize - 1) \div PageSize)

\* page['Snapshots'] of page p (1-based) of an account of n snapshots.
Page(n, p) ==
    [k \in 1..(Min(p * PageSize, n) - (p - 1) * PageSize) |-> (p - 1) * PageSize + k]

(* --------------------------- pure functions --------------------------- *)

\* ', '.join(associated_amis)
RECURSIVE Join(_)
Join(amis) ==
    IF Len(amis) = 0 THEN ""
    ELSE IF Len(amis) = 1 THEN amis[1]
    ELSE amis[1] \o ", " \o Join(Tail(amis))

\* The value a future holds before it has run.
NoResult == [raised |-> FALSE, SnapshotId |-> 0, is_none |-> TRUE, associated_amis |-> <<>>]

\* Variant without the try/except: the lookup's exception is stored in the
\* future and re-raised by future.result().
check_snapshot_association_raises(snapshot_id) ==
    [raised |-> images[snapshot_id].raises, SnapshotId |-> snapshot_id,
     is_none |-> FALSE, associated_amis |-> images[snapshot_id].ImageIds]

\* check_snapshot_association(ec2, snapshot_id): the lookup's list of
\* ImageIds, or (snapshot_id, None) when describe_images raised; the
\* function itself never raises an Exception (raised = FALSE).
check_snapshot_association(snapshot_id) ==
    IF images[snapshot_id].raises
    THEN [raised |-> FALSE, SnapshotId |-> snapshot_id, is_none |-> TRUE,
          associated_amis |-> <<>>]
    ELSE [raised |-> FALSE, SnapshotId |-> snapshot_id, is_none |-> FALSE,
          associated_amis |-> images[snapshot_id].ImageIds]

\* `associated_amis is not None and len(associated_amis) > 0`
IsAttached(r) == (~r.is_none) /\ Len(r.associated_amis) > 0

\* Variant: a plain `else`, which takes None for an empty list.
IsUnattachedElse(r) == ~IsAttached(r)

\* `elif associated_amis is not None`
IsUnattached(r) == (~IsAttached(r)) /\ (~r.is_none)

RECURSIVE JoinComma(_)
JoinComma(amis) ==
    IF Len(amis) = 0 THEN ""
    ELSE IF Len(amis) = 1 THEN amis[1]
    ELSE amis[1] \o "," \o JoinComma(Tail(amis))

\* Variant: fixed-config mode joins with ',' instead of ', '.
AttachedRowCommaOnly(m, r) ==
    IF m = "interactive"
    THEN [SnapshotId |-> r.SnapshotId, AssociatedAMIs |-> r.associated_amis]
    ELSE [SnapshotId |-> r.SnapshotId, AssociatedAMIs |-> JoinComma(r.associated_amis)]

\* The row appended to attached_snapshots: interactive mode keeps the list,
\* fixed-config mode joins it at once.
AttachedRow(m, r) ==
    IF m = "interactive"
    THEN [SnapshotId |-> r.SnapshotId, AssociatedAMIs |-> r.associated_amis]
    ELSE [SnapshotId |-> r.SnapshotId, AssociatedAMIs |-> Join(r.associated_amis)]

\* Variant: the list is rebound instead of appended to.
AttachedAfterOverwrite(m, att, r) ==
    IF IsAttached(r)
    THEN <<[SnapshotId |-> r.SnapshotId,
            AssociatedAMIs |-> IF m = "interactive" THEN r.associated_amis
                               ELSE Join(r.associated_amis)]>>
    ELSE att

\* attached_snapshots after one drained outcome.
AttachedAfter(m, att, r) ==
    IF IsAttached(r) THEN Append(att, AttachedRow(m, r)) ELSE att

\* unattached_snapshots after one drained outcome (find_attached_snapshots
\* has no such list).
UnattachedAfter(m, unatt, r) ==
    IF m = "interactive" /\ IsUnattached(r)
    THEN Append(unatt, [SnapshotId |-> r.SnapshotId])
    ELSE unatt

\* Variant: the unattached table is written first.
TablesUnattachedFirst(m) ==
    IF m = "interactive" THEN <<"unattached", "attached">> ELSE <<"attached">>

\* The tables main() writes, in the order it writes them.
Tables(m) == IF m = "interactive" THEN <<"attached", "unattached">> ELSE <<"attached">>

\* fieldnames of the DictWriter.
Fieldnames(m, table) ==
    IF table = "attached" THEN <<"SnapshotId", "AssociatedAMIs">> ELSE <<"SnapshotId">>

\* The dict handed to writer.writerow for one row of `data`.
WriterRow(m, table, row) ==
    IF table = "unattached" THEN [SnapshotId |-> row.SnapshotId]
    ELSE IF m = "interactive"
    THEN [SnapshotId |-> row.SnapshotId,
          AssociatedAMIs |-> IF Len(row.AssociatedAMIs) > 0
                             THEN Join(row.AssociatedAMIs) ELSE "None"]
    ELSE [SnapshotId |-> row.SnapshotId, AssociatedAMIs |-> row.AssociatedAMIs]

WriterRows(m, table, data) == [k \in 1..Len(data) |-> WriterRow(m, table, data[k])]

AbsentFile == [state |-> "absent", header |-> <<>>, rows |-> <<>>]

\* Variant: a bare `except:`, which catches SystemExit too.
main_except_bare(exc) == TRUE

\* `except Exception` in main(): SystemExit (raised by exit(1)) is a
\* BaseException and is not caught.
main_except(exc) == exc # "SystemExit"

\* Variant: the handler re-raises, the interpreter exits with `code`.
main_exit_status_reraise(exc, code) == code

\* The exit status of the process when `exc` leaves main()'s try body:
\* caught, printed and a normal return (0), or `code`, the status the
\* interpreter exits with when nothing catches it.
main_exit_status(exc, code) == IF main_except(exc) THEN 0 ELSE code

\* Variant: the cap is tested off by one.
SlotFreeOffByOne(in_flight) == in_flight <= max_workers

\* ThreadPoolExecutor(max_workers=10): the pool never holds more than
\* max_workers threads, so a queued unit is taken only while fewer than
\* max_workers units are running.
SlotFree(in_flight) == in_flight < max_workers

Line(text, id) == [line |-> text, id |-> id]

Futures == 1..account

Running == {i \in Futures : fstate[i] = "RUNNING"}

Submitted == {i \in Futures : fstate[i] # "NEW"}

(* ------------------------------- Init --------------------------------- *)

InitWith(ms, ns) ==
    /\ mode \in ms
    /\ account \in ns
    /\ pc = "init"
    /\ exit_code = -1
    /\ error = "none"
    /\ printed = {}
    /\ list_calls = 0
    /\ snapshots = <<>>
    /\ fstate = [i \in 1..account |-> "NEW"]
    /\ work_queue = <<>>
    /\ lookup_count = [i \in 1..account |-> 0]
    /\ future_result = [i \in 1..account |-> NoResult]
    /\ consumed = [i \in 1..account |-> 0]
    /\ completed = 0
    /\ attached_snapshots = <<>>
    /\ unattached_snapshots = <<>>
    /\ saving = 1
    /\ files = [m \in Modes |-> [t \in {"attached", "unattached"} |-> AbsentFile]]
    /\ runs = 1

Init ==
    /\ InitWith(Modes, 0..MaxSnapshots)
    /\ images \in [1..account -> LookupOutcomes]

(* ------------------------------ main() -------------------------------- *)

\* The process ends: `exc` left the try body of main() ("none": it ran to
\* its end).
Terminate(cause, exc, code) ==
    /\ pc' = "exit"
    /\ error' = cause
    /\ exit_code' = IF exc = "none" THEN 0 ELSE main_exit_status(exc, code)

\* initialize_aws_client returns the client.
initialize_aws_client ==
    /\ pc = "init"
    /\ pc' = "fetch"
    /\ printed' = printed \cup {Line("AWS client initialized", 0)}
    /\ UNCHANGED <<mode, account, images, exit_code, error, list_calls, snapshots,
                   fstate, work_queue, lookup_count, future_result,
                   consumed, completed, attached_snapshots, unattached_snapshots,
                   saving, files, runs>>

\* initialize_aws_client fails: either handler prints and calls exit(1).
initialize_aws_client_fails ==
    /\ pc = "init"
    /\ \E cause \in {"NoCredentialsError", "PartialCredentialsError", "InitException"} :
          /\ printed' = printed \cup
                {IF cause = "InitException"
                 THEN Line("Error initializing AWS client", 0)
                 ELSE Line("AWS credentials not found", 0)}
                \cup (IF main_except("SystemExit")
                      THEN {Line("An error occurred", 0)} ELSE {})
          /\ Terminate(cause, "SystemExit", 1)
    /\ UNCHANGED <<mode, account, images, list_calls, snapshots,
                   fstate, work_queue, lookup_count, future_result,
                   consumed, completed, attached_snapshots, unattached_snapshots,
                   saving, files, runs>>

\* get_all_snapshots: one page of the paginator is delivered and appended;
\* after the last page the list is returned to main().
get_all_snapshots_page ==
    /\ pc = "fetch"
    /\ list_calls' = list_calls + 1
    /\ snapshots' = snapshots \o Page(account, list_calls + 1)
    /\ pc' = IF list_calls + 1 = NumPages(account) THEN "submit" ELSE "fetch"
    /\ UNCHANGED <<mode, account, images, exit_code, error, printed,
                   fstate, work_queue, lookup_count, future_result,
                   consumed, completed, attached_snapshots, unattached_snapshots,
                   saving, files, runs>>

\* get_all_snapshots: a page request raises; nothing catches it before main().
get_all_snapshots_fails ==
    /\ pc = "fetch"
    /\ list_calls' = list_calls + 1
    /\ printed' = printed \cup
          (IF main_except("ListingException") THEN {Line("An error occurred", 0)} ELSE {})
    /\ Terminate("ListingException", "ListingException", 1)
    /\ UNCHANGED <<mode, account, images, snapshots,
                   fstate, work_queue, lookup_count, future_result,
                   consumed, completed, attached_snapshots, unattached_snapshots,
                   saving, files, runs>>

(* ------------------- ThreadPoolExecutor fan-out ----------------------- *)

\* executor.submit(check_snapshot_association, ec2, snapshot['SnapshotId'])
\* for the next record of `snapshots`: a new future is queued.
submit ==
    /\ pc = "submit"
    /\ \E i \in 1..Len(snapshots) :
          /\ fstate[i] = "NEW"
          /\ \A j \in 1..(i - 1) : fstate[j] # "NEW"
          /\ fstate' = [fstate EXCEPT ![i] = "PENDING"]
          /\ work_queue' = Append(work_queue, i)
    /\ UNCHANGED <<mode, account, images, pc, exit_code, error, printed, list_calls,
                   snapshots, lookup_count, future_result, consumed, completed,
                   attached_snapshots, unattached_snapshots, saving, files, runs>>

\* The dict comprehension is complete: main() enters the as_completed loop.
submit_done ==
    /\ pc = "submit"
    /\ \A i \in 1..Len(snapshots) : fstate[i] # "NEW"
    /\ pc' = "collect"
    /\ UNCHANGED <<mode, account, images, exit_code, error, printed, list_calls,
                   snapshots, fstate, work_queue, lookup_count,
                   future_result, consumed, completed, attached_snapshots,
                   unattached_snapshots, saving, files, runs>>

\* A worker thread of the pool takes the head of the work queue and issues the
\* describe_images call for it.
worker_take ==
    /\ pc \in {"submit", "collect"}
    /\ work_queue # <<>>
    /\ SlotFree(Cardinality(Running))
    /\ LET i == Head(work_queue) IN
          /\ fstate' = [fstate EXCEPT ![i] = "RUNNING"]
          /\ lookup_count' = [lookup_count EXCEPT ![i] = @ + 1]
    /\ work_queue' = Tail(work_queue)
    /\ UNCHANGED <<mode, account, images, pc, exit_code, error, printed, list_calls,
                   snapshots, future_result, consumed, completed,
                   attached_snapshots, unattached_snapshots, saving, files, runs>>

\* A running check_snapshot_association returns: its future is finished.
\* A lookup that raised is printed as a warning.
worker_finish ==
    /\ pc \in {"submit", "collect"}
    /\ \E i \in Running :
          LET r == check_snapshot_association(snapshots[i]) IN
          /\ fstate' = [fstate EXCEPT ![i] = "FINISHED"]
          /\ future_result' = [future_result EXCEPT ![i] = r]
          /\ printed' = IF r.is_none
                        THEN printed \cup {Line("Error processing snapshot", snapshots[i])}
                        ELSE printed
    /\ UNCHANGED <<mode, account, images, pc, exit_code, error, list_calls,
                   snapshots, work_queue, lookup_count, consumed,
                   completed, attached_snapshots, unattached_snapshots, saving,
                   files, runs>>

(* --------------------- as_completed fan-in ---------------------------- *)

\* One iteration of the loop: as_completed yields a finished future it has
\* not yielded before, future.result() is read and the outcome partitioned.
\* future.result() re-raises what the call raised.
collect ==
    /\ pc = "collect"
    /\ \E i \in 1..Len(snapshots) :
          /\ fstate[i] = "FINISHED"
          /\ consumed[i] = 0
          /\ consumed' = [consumed EXCEPT ![i] = @ + 1]
          /\ LET r == future_result[i] IN
                IF r.raised
                THEN /\ Terminate("LookupException", "LookupException", 1)
                     /\ printed' = printed \cup
                           (IF main_except("LookupException")
                            THEN {Line("An error occurred", 0)} ELSE {})
                     /\ UNCHANGED <<completed, attached_snapshots, unattached_snapshots>>
                ELSE /\ completed' = completed + 1
                     /\ attached_snapshots' = AttachedAfter(mode, attached_snapshots, r)
                     /\ unattached_snapshots' = UnattachedAfter(mode, unattached_snapshots, r)
                     /\ UNCHANGED <<pc, exit_code, error, printed>>
    /\ UNCHANGED <<mode, account, images, list_calls, snapshots, fstate, work_queue,
                   lookup_count, future_result, saving, files, runs>>

\* Variant: the loop stops one outcome short.
LoopEndsOffByOne == completed + 1 >= Len(snapshots)

\* as_completed is exhausted once every future of the dict has been yielded.
LoopEnds == \A i \in 1..Len(snapshots) : consumed[i] > 0

\* The loop ends, the executor shuts down and the lists are returned.
collect_done ==
    /\ pc = "collect"
    /\ LoopEnds
    /\ pc' = "save"
    /\ UNCHANGED <<mode, account, images, exit_code, error, printed, list_calls,
                   snapshots, fstate, work_queue, lookup_count,
                   future_result, consumed, completed, attached_snapshots,
                   unattached_snapshots, saving, files, runs>>

(* --------------------------- csv tables ------------------------------- *)

\* The list main() passes for a table.
TableData(table) ==
    IF table = "attached" THEN attached_snapshots ELSE unattached_snapshots

\* save_data_to_csv / save_attached_snapshots_to_csv writes the next table
\* in full; after the last table main() returns.
save_table ==
    /\ pc = "save"
    /\ LET table == Tables(mode)[saving] IN
          /\ files' = [files EXCEPT ![mode][table] =
                          [state |-> "complete",
                           header |-> Fieldnames(mode, table),
                           rows |-> WriterRows(mode, table, TableData(table))]]
          /\ printed' = printed \cup {Line("Data saved", saving)}
    /\ IF saving = Len(Tables(mode))
       THEN /\ Terminate("none", "none", 0)
            /\ UNCHANGED saving
       ELSE /\ saving' = saving + 1
            /\ UNCHANGED <<pc, exit_code, error>>
    /\ UNCHANGED <<mode, account, images, list_calls, snapshots, fstate, work_queue,
                   lookup_count, future_result, consumed, completed,
                   attached_snapshots, unattached_snapshots, runs>>

\* The write of the next table raises IOError: at open() (no file), or
\* after the header and the first k rows. The exception leaves main()'s try
\* body, so a later table is not written.
save_table_fails ==
    /\ pc = "save"
    /\ LET table == Tables(mode)[saving]
           rows  == WriterRows(mode, table, TableData(table))
       IN  \/ UNCHANGED files
           \/ \E k \in 0..Len(rows) :
                 files' = [files EXCEPT ![mode][table] =
                              [state |-> "partial",
                               header |-> Fieldnames(mode, table),
                               rows |-> SubSeq(rows, 1, k)]]
    /\ printed' = printed \cup
          (IF main_except("IOError") THEN {Line("An error occurred", 0)} ELSE {})
    /\ Terminate("IOError", "IOError", 1)
    /\ UNCHANGED <<mode, account, images, list_calls, snapshots, fstate, work_queue,
                   lookup_count, future_result, consumed, completed,
                   attached_snapshots, unattached_snapshots, saving, runs>>

(* -------------------------- specifications ---------------------------- *)

Next ==
    \/ initialize_aws_client
    \/ initialize_aws_client_fails
    \/ get_all_snapshots_page
    \/ get_all_snapshots_fails
    \/ submit
    \/ submit_done
    \/ worker_take
    \/ worker_finish
    \/ collect
    \/ collect_done
    \/ save_table
    \/ save_table_fails

Spec == Init /\ [][Next]_vars

\* A second run of the program against the same account, in the other mode;
\* the files of the first run stay on disk.
run_other_mode ==
    /\ pc = "exit"
    /\ runs = 1
    /\ runs' = 2
    /\ mode' = CHOOSE m \in Modes : m # mode
    /\ pc' = "init"
    /\ exit_code' = -1
    /\ error' = "none"
    /\ printed' = {}
    /\ list_calls' = 0
    /\ snapshots' = <<>>
    /\ fstate' = [i \in 1..account |-> "NEW"]
    /\ work_queue' = <<>>
    /\ lookup_count' = [i \in 1..account |-> 0]
    /\ future_result' = [i \in 1..account |-> NoResult]
    /\ consumed' = [i \in 1..account |-> 0]
    /\ completed' = 0
    /\ attached_snapshots' = <<>>
    /\ unattached_snapshots' = <<>>
    /\ saving' = 1
    /\ UNCHANGED <<account, images, files>>

\* More snapshots than worker threads: the first is attached, the second
\* unattached, the lookups of the others raise.
InitPool ==
    /\ InitWith(Modes, {PoolSnapshots})
    /\ images = [i \in 1..account |->
                    IF i = 1 THEN [raises |-> FALSE, ImageIds |-> <<"ami-1">>]
                    ELSE IF i = 2 THEN [raises |-> FALSE, ImageIds |-> <<>>]
                    ELSE [raises |-> TRUE, ImageIds |-> <<>>]]

SpecPool == InitPool /\ [][Next]_vars

InitModes ==
    /\ InitWith(Modes, 0..ModesSnapshots)
    /\ images \in [1..account -> LookupOutcomes]

NextModes == Next \/ run_other_mode

SpecModes == InitModes /\ [][NextModes]_vars

\* The scheduler runs every thread that can take a step, and every lookup
\* call returns or raises; failures of the session, the listing and the
\* writes are the environment's and are not forced.
Fairness ==
    /\ WF_vars(submit)
    /\ WF_vars(submit_done)
    /\ WF_vars(worker_take)
    /\ WF_vars(worker_finish)
    /\ WF_vars(collect)
    /\ WF_vars(collect_done)

SpecFair == Init /\ [][Next]_vars /\ Fairness

(* ------------------------------ claims -------------------------------- *)

Range(seq) == {seq[k] : k \in 1..Len(seq)}

Ids(list) == {list[k].SnapshotId : k \in 1..Len(list)}

\* categorize_snapshots / find_attached_snapshots has returned to main().
Categorized == pc = "save" \/ (pc = "exit" /\ error \in {"none", "IOError"})

\* The snapshots whose lookup failure was printed as a warning.
FailedIds == {l.id : l \in {x \in printed : x.line = "Error processing snapshot"}}

LookupFails(id) == images[id].raises

LookupImages(id) == images[id].ImageIds

\* C1: after categorize_snapshots returns, a submitted snapshot is in the
\* attached list iff its lookup succeeded with a non-empty image list and in
\* the unattached list iff it succeeded with an empty one; the two lists
\* share no snapshot, and attached, unattached and failed snapshots together
\* are exactly the submitted snapshots.
C1_PartitionIsExact ==
    (mode = "interactive" /\ Categorized) =>
        /\ \A id \in Range(snapshots) :
              /\ (id \in Ids(attached_snapshots))
                     <=> ((~LookupFails(id)) /\ Len(LookupImages(id)) > 0)
              /\ (id \in Ids(unattached_snapshots))
                     <=> ((~LookupFails(id)) /\ Len(LookupImages(id)) = 0)
              /\ (id \in FailedIds) <=> LookupFails(id)
        /\ Ids(attached_snapshots) \cap Ids(unattached_snapshots) = {}
        /\ Ids(attached_snapshots) \cup Ids(unattached_snapshots) \cup FailedIds
               = Range(snapshots)
        /\ Len(attached_snapshots) = Cardinality(Ids(attached_snapshots))
        /\ Len(unattached_snapshots) = Cardinality(Ids(unattached_snapshots))

C1_Witness ==
    /\ mode = "interactive"
    /\ pc = "save"
    /\ Len(attached_snapshots) > 0
    /\ Len(unattached_snapshots) > 0
    /\ FailedIds # {}

\* C2: one classification unit is submitted and one outcome drained per
\* fetched record: no unit is looked up or drained twice, and when the
\* collecting loop has ended every record was looked up and drained once
\* and the count of drained outcomes equals the number of records.
C2_OneOutcomePerRecord ==
    /\ \A i \in Futures : lookup_count[i] <= 1 /\ consumed[i] <= 1
    /\ Categorized =>
          /\ Len(snapshots) = account
          /\ completed = Len(snapshots)
          /\ \A i \in 1..Len(snapshots) :
                lookup_count[i] = 1 /\ consumed[i] = 1 /\ fstate[i] = "FINISHED"
                /\ future_result[i].SnapshotId = snapshots[i]

C2_Witness == pc = "save" /\ Len(snapshots) >= 2 /\ completed = Len(snapshots)

\* The rows of the tables the running mode has on disk.
WrittenIds ==
    Ids(files[mode]["attached"].rows) \cup Ids(files[mode]["unattached"].rows)

\* C3: a failed image lookup does not abort the run: once its outcome is
\* drained the loop goes on to drain every other outcome, the snapshot is in
\* neither list and in neither table, and every other drained snapshot is
\* classified by its own lookup result.
C3_LookupFailureIsolated ==
    \A i \in 1..Len(snapshots) :
        (consumed[i] > 0 /\ LookupFails(snapshots[i])) =>
            /\ snapshots[i] \notin Ids(attached_snapshots) \cup Ids(unattached_snapshots)
            /\ snapshots[i] \notin WrittenIds
            /\ \/ pc \in {"collect", "save"}
               \/ pc = "exit" /\ error \in {"none", "IOError"}
                              /\ completed = Len(snapshots)
            /\ \A j \in 1..Len(snapshots) :
                  (consumed[j] > 0 /\ ~LookupFails(snapshots[j])) =>
                      IF Len(LookupImages(snapshots[j])) > 0
                      THEN /\ \E row \in Range(attached_snapshots) :
                                 row = AttachedRow(mode,
                                          check_snapshot_association(snapshots[j]))
                           /\ snapshots[j] \notin Ids(unattached_snapshots)
                      ELSE /\ snapshots[j] \notin Ids(attached_snapshots)
                           /\ mode = "interactive"
                                 => snapshots[j] \in Ids(unattached_snapshots)
            /\ (pc = "exit" /\ error = "none") =>
                  /\ Ids(files[mode]["attached"].rows) = Ids(attached_snapshots)
                  /\ Ids(files[mode]["unattached"].rows) = Ids(unattached_snapshots)

C3_Witness ==
    /\ mode = "interactive"
    /\ pc = "exit"
    /\ error = "none"
    /\ Cardinality({id \in Range(snapshots) : LookupFails(id)}) = 1
    /\ Len(attached_snapshots) > 0
    /\ Len(unattached_snapshots) > 0

NoFiles == \A t \in {"attached", "unattached"} : files[mode][t] = AbsentFile

\* C4: an authentication failure ends the run at once with a non-zero exit
\* status: no listing request, no lookup and no output file happen, and
\* main()'s handler does not print and turn the exit into status 0.
C4_AuthFailureExitsNonZero ==
    error \in {"NoCredentialsError", "PartialCredentialsError"} =>
        /\ pc = "exit"
        /\ exit_code = 1
        /\ list_calls = 0
        /\ snapshots = <<>>
        /\ \A i \in Futures : fstate[i] = "NEW" /\ lookup_count[i] = 0
        /\ NoFiles
        /\ Line("An error occurred", 0) \notin printed
        /\ Line("AWS credentials not found", 0) \in printed

C4_Witness == pc = "exit" /\ error = "PartialCredentialsError" /\ account > 0

\* The table whose write raised.
FailedTable == Tables(mode)[saving]

\* C5 as stated: an IOError on either table leaves the other table written.
C5_OtherTableAlwaysWritten ==
    (mode = "interactive" /\ pc = "exit" /\ error = "IOError") =>
        \A t \in Range(Tables(mode)) \ {FailedTable} : files[mode][t].state = "complete"

\* C5 amended: an IOError on the unattached table (written second) leaves
\* the attached table complete on disk; an IOError on the attached table
\* (written first) ends main(), the unattached table is never written; the
\* error is printed and the exit status is 0.
C5_LaterTableSkipped ==
    (mode = "interactive" /\ pc = "exit" /\ error = "IOError") =>
        /\ FailedTable = "unattached" =>
              /\ files[mode]["attached"].state = "complete"
              /\ files[mode]["attached"].rows
                     = WriterRows(mode, "attached", attached_snapshots)
        /\ FailedTable = "attached" => files[mode]["unattached"] = AbsentFile
        /\ files[mode][FailedTable].state # "complete"
        /\ exit_code = 0
        /\ Line("An error occurred", 0) \in printed

C5_Witness ==
    /\ mode = "interactive"
    /\ pc = "exit"
    /\ error = "IOError"
    /\ FailedTable = "unattached"
    /\ Len(files[mode]["attached"].rows) > 0
    /\ Len(unattached_snapshots) > 0

\* C6: never more than 10 lookups are in flight, however many snapshots were
\* fetched; a submitted unit that is not running or finished waits in the
\* work queue.
C6_AtMostTenInFlight ==
    /\ Cardinality(Running) <= 10
    /\ \A i \in Futures : fstate[i] = "PENDING" <=> i \in Range(work_queue)

C6_Witness ==
    /\ Cardinality(Running) = 10
    /\ work_queue # <<>>
    /\ Len(snapshots) > 10

\* The lists a sequential run over the first k records builds, outcomes
\* drained in submission order.
RECURSIVE AttachedInOrder(_)
AttachedInOrder(k) ==
    IF k = 0 THEN <<>>
    ELSE AttachedAfter(mode, AttachedInOrder(k - 1),
                       check_snapshot_association(snapshots[k]))

RECURSIVE UnattachedInOrder(_)
UnattachedInOrder(k) ==
    IF k = 0 THEN <<>>
    ELSE UnattachedAfter(mode, UnattachedInOrder(k - 1),
                         check_snapshot_association(snapshots[k]))

\* C7: whatever order the workers complete in, the attached and unattached
\* results hold the same rows (same members, same image-id list per attached
\* snapshot) as draining the outcomes in submission order.
C7_PartitionOrderInvariant ==
    Categorized =>
        /\ Range(attached_snapshots) = Range(AttachedInOrder(Len(snapshots)))
        /\ Len(attached_snapshots) = Len(AttachedInOrder(Len(snapshots)))
        /\ Range(unattached_snapshots) = Range(UnattachedInOrder(Len(snapshots)))
        /\ Len(unattached_snapshots) = Len(UnattachedInOrder(Len(snapshots)))

C7_Witness ==
    /\ pc = "save"
    /\ Len(attached_snapshots) >= 2
    /\ attached_snapshots # AttachedInOrder(Len(snapshots))

\* C8: a listing failure on any page ends the run in main()'s handler: no
\* lookup is issued, no file is written, the error is printed and the exit
\* status is 0.
C8_ListingFailureIsFatal ==
    error = "ListingException" =>
        /\ pc = "exit"
        /\ exit_code = 0
        /\ Line("An error occurred", 0) \in printed
        /\ \A i \in Futures : fstate[i] = "NEW" /\ lookup_count[i] = 0
        /\ completed = 0
        /\ NoFiles

C8_Witness ==
    /\ error = "ListingException"
    /\ list_calls >= 2
    /\ Len(snapshots) > 0

\* C9: under fair scheduling and returning lookups, once submission has
\* begun the completed count reaches the total, the loop ends and the run
\* reaches the write phase.
C9_AllUnitsComplete ==
    (pc = "submit") ~> (pc = "save" /\ completed = Len(snapshots) /\ work_queue = <<>>
                        /\ Running = {})

C9_Witness ==
    /\ pc = "save"
    /\ completed = Len(snapshots)
    /\ Len(snapshots) >= 2
    /\ FailedIds # {}

\* C10: for the same account and lookup results both modes write the same
\* attached rows, each AssociatedAMIs being the image ids joined by ', ' in
\* lookup order, and neither writes an empty or None AssociatedAMIs.
C10_ModesWriteSameAttachedRows ==
    LET fi == files["interactive"]["attached"]
        ff == files["fixed"]["attached"]
    IN  /\ (fi.state = "complete" /\ ff.state = "complete") =>
              /\ Range(fi.rows) = Range(ff.rows)
              /\ Len(fi.rows) = Len(ff.rows)
        /\ \A row \in Range(fi.rows) \cup Range(ff.rows) :
              /\ row.AssociatedAMIs \notin {"", "None"}
              /\ row.AssociatedAMIs = Join(LookupImages(row.SnapshotId))

C10_Witness ==
    LET fi == files["interactive"]["attached"]
        ff == files["fixed"]["attached"]
    IN  /\ fi.state = "complete"
        /\ ff.state = "complete"
        /\ Len(fi.rows) >= 2
        /\ fi.rows # ff.rows
        /\ \E row \in Range(ff.rows) : row.AssociatedAMIs = "ami-2, ami-1"

====
